---- MODULE Spec2Model ----
(***************************************************************************)
(* Model of the Prompt Flow Reader (src/prompts/prompt_flow.py and its     *)
(* config-less twin src/prompts/flows/unit_test_prompt_flow.py).           *)
(*                                                                         *)
(* Texts, file names and path segments are sequences of one-character      *)
(* strings, so that split, strip, join, lower and substring search are     *)
(* computed the way the Python code computes them.                         *)
(***************************************************************************)
EXTENDS Integers, Sequences, FiniteSets, TLC

VARIABLES
    pc,        \* position of the operation in progress
    content,   \* SpecHeader: raw text handed to _extract_frontmatter / read_file
    extracted, \* SpecHeader: what _extract_frontmatter returned
    processed, \* SpecHeader: what read_file returned (or the exception it raised)
    again,     \* SpecHeader: what _extract_frontmatter returned for the body it returned
    cname,     \* SpecClassify: file name handed to _determine_file_type
    cheader,   \* SpecClassify: frontmatter handed to _determine_file_type
    ctype,     \* SpecClassify: the FileType it returned
    cmeta,     \* SpecClassify: what _create_metadata returned
    flow,      \* SpecFlow: config.flow, the ordered step descriptors
    step_i,    \* SpecFlow: number of steps the loop of execute_flow has done
    results,   \* SpecFlow: the results dictionary execute_flow builds
    tree,      \* SpecCatalog: the file tree below the base directory
    patterns,  \* SpecCatalog: the patterns handed to find_files_by_pattern
    found,     \* SpecCatalog: what find_files_by_pattern returned
    buckets,   \* SpecCatalog: what read_all_files returned (or raised)
    file_paths, \* SpecOrder: the paths handed to read_files_in_order
    ordered,   \* SpecOrder: what read_files_in_order returned (or raised)
    combined,  \* SpecOrder: what append_and_print_prompt_context returned
    args,      \* SpecMain: the parsed command line
    config_file, \* SpecMain: the configuration file --flow names
    config,    \* SpecMain: the FlowConfig load_config returned
    touched,   \* SpecMain: the file-system operations done so far, in order
    listing,   \* SpecMain: the step lines the dry run has printed
    exit_code  \* SpecMain: the exit status of the process

headerVars == <<content, extracted, processed, again>>
classifyVars == <<cname, cheader, ctype, cmeta>>
flowVars == <<flow, step_i, results>>
catalogVars == <<tree, patterns, found, buckets>>
orderVars == <<file_paths, ordered, combined>>
mainVars == <<args, config_file, config, touched, listing, exit_code>>
vars == <<pc, headerVars, classifyVars, flowVars, catalogVars, orderVars, mainVars>>

(***************************************************************************)
(* Bounds                                                                  *)
(***************************************************************************)
MaxLines == 4        \* longest generated text, in lines
MaxSteps == 2        \* longest generated flow, in steps
MaxPatterns == 2     \* longest generated pattern list
MaxPaths == 3        \* longest generated list of paths to read in order

(***************************************************************************)
(* Characters and string primitives of Python                              *)
(***************************************************************************)
NL == "\n"

\* str.strip() with no argument removes these
IsSpace(c) == c \in {" ", "\t", "\r", "\n"}

RECURSIVE LStrip(_)
LStrip(s) == IF s # <<>> /\ IsSpace(Head(s)) THEN LStrip(Tail(s)) ELSE s

RECURSIVE RStrip(_)
RStrip(s) ==
    IF s # <<>> /\ IsSpace(s[Len(s)]) THEN RStrip(SubSeq(s, 1, Len(s) - 1)) ELSE s

Strip(s) == RStrip(LStrip(s))

\* Position of the first occurrence of character c in s at or after i; 0 when none
RECURSIVE IndexOf(_, _, _)
IndexOf(s, c, i) ==
    IF i > Len(s) THEN 0
    ELSE IF s[i] = c THEN i
    ELSE IndexOf(s, c, i + 1)

\* s.split(c): always at least one piece
RECURSIVE SplitOn(_, _)
SplitOn(s, c) ==
    LET k == IndexOf(s, c, 1)
    IN  IF k = 0 THEN <<s>>
        ELSE <<SubSeq(s, 1, k - 1)>> \o SplitOn(SubSeq(s, k + 1, Len(s)), c)

\* content.split('\n')
Split(s) == SplitOn(s, NL)

\* '\n'.join(lines)
RECURSIVE Join(_)
Join(lines) ==
    IF lines = <<>> THEN <<>>
    ELSE IF Len(lines) = 1 THEN lines[1]
    ELSE lines[1] \o <<NL>> \o Join(Tail(lines))

\* needle in s (substring test)
StartsWithAt(s, needle, i) ==
    /\ i + Len(needle) - 1 <= Len(s)
    /\ \A j \in 1..Len(needle) : s[i + j - 1] = needle[j]

Contains(s, needle) == \E i \in 1..(Len(s) + 1) : StartsWithAt(s, needle, i)

EndsWith(s, suffix) ==
    /\ Len(suffix) <= Len(s)
    /\ StartsWithAt(s, suffix, Len(s) - Len(suffix) + 1)

\* str.lower() on the characters the model's file names use
LowerChar(c) ==
    CASE c = "I" -> "i" [] c = "N" -> "n" [] c = "S" -> "s" [] c = "T" -> "t"
      [] c = "R" -> "r" [] c = "U" -> "u" [] c = "C" -> "c" [] c = "O" -> "o"
      [] c = "M" -> "m" [] c = "D" -> "d" [] c = "P" -> "p" [] c = "A" -> "a"
      [] OTHER -> c

Lower(s) == [i \in 1..Len(s) |-> LowerChar(s[i])]

(***************************************************************************)
(* Literals of the source                                                  *)
(***************************************************************************)
Sentinel == <<"-", "-", "-">>
K_applyTo == <<"a", "p", "p", "l", "y", "T", "o">>
K_applyto == <<"a", "p", "p", "l", "y", "t", "o">>
K_mode == <<"m", "o", "d", "e">>
K_model == <<"m", "o", "d", "e", "l">>
K_description == <<"d", "e", "s", "c", "r", "i", "p", "t", "i", "o", "n">>
InstructionMarker ==
    <<".", "i", "n", "s", "t", "r", "u", "c", "t", "i", "o", "n", "s", ".", "m", "d">>
PromptMarker == <<".", "p", "r", "o", "m", "p", "t", ".", "m", "d">>

\* FileType
PROMPT == "prompt"
INSTRUCTION == "instruction"
DOCUMENT == "document"

(***************************************************************************)
(* Python values a frontmatter can be                                      *)
(***************************************************************************)
None == [kind |-> "none"]
Dict(f) == [kind |-> "dict", items |-> f]
Str(s) == [kind |-> "str", val |-> s]
List(l) == [kind |-> "list", elems |-> l]
EmptyDict == Dict(<<>>)

IsDict(v) == v.kind = "dict"

\* truth value of `if frontmatter`
Truthy(v) ==
    CASE v.kind = "none" -> FALSE
      [] v.kind = "dict" -> DOMAIN v.items # {}
      [] v.kind = "str" -> v.val # <<>>
      [] v.kind = "list" -> v.elems # <<>>

\* `key in frontmatter` for the three container types
HasKey(v, key) ==
    CASE v.kind = "dict" -> key \in DOMAIN v.items
      [] v.kind = "str" -> Contains(v.val, key)
      [] v.kind = "list" -> \E i \in 1..Len(v.elems) : v.elems[i] = key
      [] OTHER -> FALSE

(***************************************************************************)
(* yaml.safe_load on the span between the delimiters.  The parser is a     *)
(* library; it is modelled on the unindented one-line constructs the       *)
(* generated texts use: blank lines, `# comment`, `key: value`, `- item`,  *)
(* plain scalars, an unclosed `[` and the document marker `---`.           *)
(***************************************************************************)
LineKind(line) ==
    LET s == Strip(line)
    IN  IF s = <<>> THEN "blank"
        ELSE IF s[1] = "#" THEN "comment"
        ELSE IF RStrip(line) = Sentinel THEN "marker"
        ELSE IF Contains(s, <<"[">>) /\ ~Contains(s, <<"]">>) THEN "bad"
        ELSE IF StartsWithAt(s, <<"-", " ">>, 1) THEN "seq"
        ELSE IF Contains(s, <<":", " ">>) THEN "map"
        ELSE "scalar"

EntryKey(line) == LET s == Strip(line) IN SubSeq(s, 1, IndexOf(s, ":", 1) - 1)
EntryValue(line) ==
    LET s == Strip(line) IN Strip(SubSeq(s, IndexOf(s, ":", 1) + 1, Len(s)))

\* the lines of the span that are not blank
RECURSIVE DropKind(_, _)
DropKind(lines, kind) ==
    IF lines = <<>> THEN <<>>
    ELSE IF LineKind(Head(lines)) = kind THEN DropKind(Tail(lines), kind)
    ELSE <<Head(lines)>> \o DropKind(Tail(lines), kind)

\* a plain scalar runs over consecutive lines; a comment ends it
RECURSIVE ScalarRuns(_, _)
ScalarRuns(lines, inScalar) ==
    IF lines = <<>> THEN 0
    ELSE IF LineKind(Head(lines)) = "scalar"
         THEN (IF inScalar THEN 0 ELSE 1) + ScalarRuns(Tail(lines), TRUE)
         ELSE ScalarRuns(Tail(lines), FALSE)

\* a multi-line plain scalar is folded: its line breaks become spaces
RECURSIVE Fold(_)
Fold(lines) ==
    IF lines = <<>> THEN <<>>
    ELSE IF Len(lines) = 1 THEN Strip(lines[1])
    ELSE Strip(lines[1]) \o <<" ">> \o Fold(Tail(lines))

\* the outcome of a call: a value, or the exception it raised
Returned(v) == [raised |-> "none", value |-> v]
Raised(e) == [raised |-> e]

\* one leading document marker is allowed; any other starts a second document
SkipMarker(lines) ==
    IF lines # <<>> /\ LineKind(Head(lines)) = "marker" THEN Tail(lines) ELSE lines

\* the value of the document the non-blank, non-comment lines `nodes` make up;
\* `kinds` are their kinds and `runs` the number of plain scalars among them
ComposeNodes(nodes, kinds, runs) ==
    IF "bad" \in kinds \/ "marker" \in kinds THEN Raised("YAMLError")
    ELSE IF nodes = <<>> THEN Returned(None)
    ELSE IF kinds = {"map"}
         THEN Returned(Dict([k \in {EntryKey(nodes[i]) : i \in 1..Len(nodes)} |->
                 EntryValue(nodes[CHOOSE i \in 1..Len(nodes) :
                     /\ EntryKey(nodes[i]) = k
                     /\ \A j \in (i + 1)..Len(nodes) : EntryKey(nodes[j]) # k])]))
    ELSE IF kinds = {"seq"}
         THEN Returned(List([i \in 1..Len(nodes) |->
                 Strip(SubSeq(Strip(nodes[i]), 3, Len(Strip(nodes[i]))))]))
    ELSE IF kinds = {"scalar"} /\ runs = 1 THEN Returned(Str(Fold(nodes)))
    ELSE Raised("YAMLError")

ComposeLines(nodes, runs) ==
    ComposeNodes(nodes, {LineKind(nodes[i]) : i \in 1..Len(nodes)}, runs)

SafeLoad(text) ==
    ComposeLines(SkipMarker(DropKind(DropKind(Split(text), "blank"), "comment")),
                 ScalarRuns(SkipMarker(DropKind(Split(text), "blank")), FALSE))

(***************************************************************************)
(* PromptFlowReader._extract_frontmatter                                   *)
(***************************************************************************)
\* the loop of lines 261-264: first line after the first that strips to '---'
\* (1-based position; 0 when the loop ends without a break)
\* slip: keeps scanning after a match, so the last delimiter line wins
RECURSIVE FindEnd_last(_, _)
FindEnd_last(lines, i) ==
    IF i > Len(lines) THEN 0
    ELSE IF FindEnd_last(lines, i + 1) # 0 THEN FindEnd_last(lines, i + 1)
    ELSE IF Strip(lines[i]) = Sentinel THEN i
    ELSE 0

RECURSIVE FindEnd(_, _)
FindEnd(lines, i) ==
    IF i > Len(lines) THEN 0
    ELSE IF Strip(lines[i]) = Sentinel THEN i
    ELSE FindEnd(lines, i + 1)

Extracted(fm, body) == [raised |-> "none", frontmatter |-> fm, content |-> body]

\* slip: no `except yaml.YAMLError`
AfterLoad_noexcept(text, parsed, remaining_content) ==
    IF parsed.raised # "none" THEN Raised(parsed.raised)
    ELSE Extracted(parsed.value, remaining_content)

\* lines 272-279, once yaml.safe_load has returned or raised
AfterLoad(text, parsed, remaining_content) ==
    IF parsed.raised = "YAMLError" THEN Extracted(None, text)
    ELSE IF parsed.raised # "none" THEN Raised(parsed.raised)
    ELSE Extracted(parsed.value, remaining_content)

\* lines 269-279: the try block
ParseBlock(text, frontmatter_text, remaining_content) ==
    IF Strip(frontmatter_text) = <<>> THEN Extracted(EmptyDict, remaining_content)
    ELSE AfterLoad(text, SafeLoad(frontmatter_text), remaining_content)

\* slip: an unterminated block is taken to run to the end of the text
CloseBlock_toeof(text, lines, end_idx) ==
    IF end_idx = 0
    THEN ParseBlock(text, Join(SubSeq(lines, 2, Len(lines))), <<>>)
    ELSE ParseBlock(text,
                    Join(SubSeq(lines, 2, end_idx - 1)),
                    Join(SubSeq(lines, end_idx + 1, Len(lines))))

\* lines 266-276, end_idx being what the loop found
CloseBlock(text, lines, end_idx) ==
    IF end_idx = 0 THEN Extracted(None, text)
    ELSE ParseBlock(text,
                    Join(SubSeq(lines, 2, end_idx - 1)),
                    Join(SubSeq(lines, end_idx + 1, Len(lines))))

\* slip: a text without a block comes back stripped of surrounding whitespace
OpenBlock_stripped(text, lines) ==
    IF Strip(lines[1]) # Sentinel THEN Extracted(None, Strip(text))
    ELSE CloseBlock(text, lines, FindEnd(lines, 2))

\* slip: the test of the first line (line 256) is left out
OpenBlock_anyfirst(text, lines) == CloseBlock(text, lines, FindEnd(lines, 2))

\* lines 255-264
OpenBlock(text, lines) ==
    IF Strip(lines[1]) # Sentinel THEN Extracted(None, text)
    ELSE CloseBlock(text, lines, FindEnd(lines, 2))

_extract_frontmatter(text) == OpenBlock(text, Split(text))

(***************************************************************************)
(* PromptFlowReader._determine_file_type                                   *)
(***************************************************************************)
\* slip: the header is consulted before the file name
_determine_file_type_headerfirst(name, frontmatter) ==
    LET file_name == Lower(name)
    IN  IF Truthy(frontmatter)
           /\ (HasKey(frontmatter, K_applyTo) \/ HasKey(frontmatter, K_applyto))
        THEN INSTRUCTION
        ELSE IF Truthy(frontmatter)
                /\ (HasKey(frontmatter, K_mode) \/ HasKey(frontmatter, K_model))
             THEN PROMPT
        ELSE IF Contains(file_name, InstructionMarker) THEN INSTRUCTION
        ELSE IF Contains(file_name, PromptMarker) THEN PROMPT
        ELSE DOCUMENT

\* slip: the mode/model test comes before the applyTo test
_determine_file_type_modefirst(name, frontmatter) ==
    LET file_name == Lower(name)
    IN  IF Contains(file_name, InstructionMarker) THEN INSTRUCTION
        ELSE IF Contains(file_name, PromptMarker) THEN PROMPT
        ELSE IF Truthy(frontmatter)
                /\ (HasKey(frontmatter, K_mode) \/ HasKey(frontmatter, K_model))
             THEN PROMPT
        ELSE IF Truthy(frontmatter)
                /\ (HasKey(frontmatter, K_applyTo) \/ HasKey(frontmatter, K_applyto))
             THEN INSTRUCTION
        ELSE DOCUMENT

_determine_file_type(name, frontmatter) ==
    LET file_name == Lower(name)
    IN  IF Contains(file_name, InstructionMarker) THEN INSTRUCTION
        ELSE IF Contains(file_name, PromptMarker) THEN PROMPT
        ELSE IF Truthy(frontmatter)
                /\ (HasKey(frontmatter, K_applyTo) \/ HasKey(frontmatter, K_applyto))
             THEN INSTRUCTION
        ELSE IF Truthy(frontmatter)
                /\ (HasKey(frontmatter, K_mode) \/ HasKey(frontmatter, K_model))
             THEN PROMPT
        ELSE DOCUMENT

(***************************************************************************)
(* PromptFlowReader._create_metadata                                       *)
(***************************************************************************)
\* dict.get(key)
Get(d, key) == IF key \in DOMAIN d.items THEN Str(d.items[key]) ELSE None
\* a or b
Or(a, b) == IF Truthy(a) THEN a ELSE b

FileMetadata(ft, at, mo, ml, de, raw) ==
    [file_type |-> ft, apply_to |-> at, mode |-> mo, model |-> ml,
     description |-> de, raw_frontmatter |-> raw]

\* lines 319-329
MetadataOf(file_type, frontmatter) ==
    IF ~Truthy(frontmatter)
    THEN Returned(FileMetadata(file_type, None, None, None, None, None))
    ELSE IF ~IsDict(frontmatter)
    THEN Raised("AttributeError")    \* str and list have no .get
    ELSE Returned(FileMetadata(
            file_type,
            Or(Get(frontmatter, K_applyTo), Get(frontmatter, K_applyto)),
            Get(frontmatter, K_mode),
            Get(frontmatter, K_model),
            Get(frontmatter, K_description),
            frontmatter))

_create_metadata(name, frontmatter) ==
    MetadataOf(_determine_file_type(name, frontmatter), frontmatter)

(***************************************************************************)
(* The file system: a path is a sequence of segments below the base        *)
(* directory (the empty sequence is the base directory itself); an entry   *)
(* is missing, a directory or a file.  A file's read can fail with an      *)
(* OSError ("io") or a UnicodeDecodeError ("decode").                      *)
(***************************************************************************)
Missing == [kind |-> "missing"]
Directory == [kind |-> "dir"]
File(data) == [kind |-> "file", data |-> data, fault |-> "none"]
FaultyFile(fault) == [kind |-> "file", data |-> <<>>, fault |-> fault]

Exists(entry) == entry.kind # "missing"
IsFile(entry) == entry.kind = "file"

PathName(path) == IF path = <<>> THEN <<>> ELSE path[Len(path)]

(***************************************************************************)
(* PromptFlowReader.read_file                                              *)
(***************************************************************************)
ProcessedFile(path, metadata, body, fm) ==
    [file_path |-> path, metadata |-> metadata, content |-> body, frontmatter |-> fm]

\* lines 357-362
BuildFile(path, ex, md) ==
    IF md.raised # "none" THEN Raised(md.raised)
    ELSE Returned(ProcessedFile(path, md.value, ex.content, ex.frontmatter))

\* lines 354-362
ProcessContent(path, ex) ==
    IF ex.raised # "none" THEN Raised(ex.raised)
    ELSE BuildFile(path, ex, _create_metadata(PathName(path), ex.frontmatter))

read_file(path, entry) ==
    IF ~Exists(entry) THEN Raised("FileNotFoundError")
    ELSE IF entry.kind = "dir" THEN Raised("IOError")
    ELSE IF entry.fault = "io" THEN Raised("IOError")
    ELSE IF entry.fault = "decode" THEN Raised("UnicodeDecodeError")
    ELSE ProcessContent(path, _extract_frontmatter(entry.data))

(***************************************************************************)
(* Inputs of the header specification                                      *)
(***************************************************************************)
L_sentinel == Sentinel
L_sentinel_sp == <<"-", "-", "-", " ">>
L_mode == <<"m", "o", "d", "e", ":", " ", "a">>
L_comment == <<"#", " ", "c">>
L_scalar == <<"x">>
L_seq == <<"-", " ", "x">>
L_bad == <<"k", ":", " ", "[">>
L_blank == <<>>

LineSet ==
    {L_sentinel, L_sentinel_sp, L_mode, L_comment, L_scalar, L_seq, L_bad, L_blank}

Texts == {Join(ls) : ls \in UNION {[1..n -> LineSet] : n \in 1..MaxLines}}

N_doc == <<"b", ".", "m", "d">>
N_prompt == <<"a">> \o PromptMarker
N_instruction == <<"a">> \o InstructionMarker

HeaderFileNames == {N_doc, N_prompt, N_instruction}

NotYet == [raised |-> "pending"]

(***************************************************************************)
(* SpecHeader: _extract_frontmatter and read_file applied to every text    *)
(***************************************************************************)
HeaderIdle ==
    /\ content = <<>>
    /\ extracted = Extracted(None, <<>>)
    /\ processed = NotYet
    /\ again = NotYet

ClassifyIdle ==
    /\ cname = <<>>
    /\ cheader = None
    /\ ctype = DOCUMENT
    /\ cmeta = NotYet

NoResults ==
    [flow_name |-> <<>>, steps_executed |-> <<>>, files_processed |-> <<>>,
     combined_context |-> <<>>]

FlowIdle ==
    /\ flow = <<>>
    /\ step_i = 0
    /\ results = NoResults

CatalogIdle ==
    /\ tree = <<>>
    /\ patterns = <<>>
    /\ found = <<>>
    /\ buckets = NotYet

OrderIdle ==
    /\ file_paths = <<>>
    /\ ordered = NotYet
    /\ combined = <<>>

\* argparse.Namespace: --flow given or not, --dry-run (--verbose only adds
\* printed lines and --base-path is the base directory of the model)
NoArgs == [flow |-> FALSE, dry_run |-> FALSE]

\* exit_code is -1 while the process runs
MainIdle ==
    /\ args = NoArgs
    /\ config_file = Missing
    /\ config = None
    /\ touched = <<>>
    /\ listing = <<>>
    /\ exit_code = -1

InitHeader ==
    /\ pc = "start"
    /\ content \in Texts
    /\ extracted = Extracted(None, <<>>)
    /\ processed = NotYet
    /\ again = NotYet
    /\ ClassifyIdle
    /\ FlowIdle
    /\ CatalogIdle
    /\ OrderIdle
    /\ MainIdle

ExtractHeader ==
    /\ pc = "start"
    /\ extracted' = _extract_frontmatter(content)
    /\ pc' = "extracted"
    /\ UNCHANGED <<content, processed, again, classifyVars, flowVars, catalogVars, orderVars, mainVars>>

ReadFile ==
    /\ pc = "extracted"
    /\ \E name \in HeaderFileNames :
           processed' = read_file(<<name>>, File(content))
    /\ pc' = "read"
    /\ UNCHANGED <<content, extracted, again, classifyVars, flowVars, catalogVars, orderVars, mainVars>>

\* _extract_frontmatter applied once more, to the body it returned
ExtractAgain ==
    /\ pc = "extracted"
    /\ again' = _extract_frontmatter(extracted.content)
    /\ pc' = "again"
    /\ UNCHANGED <<content, extracted, processed, classifyVars, flowVars, catalogVars, orderVars, mainVars>>

NextHeader == ExtractHeader \/ ReadFile \/ ExtractAgain

SpecHeader == InitHeader /\ [][NextHeader]_vars

(***************************************************************************)
(* SpecClassify: _determine_file_type and _create_metadata applied to      *)
(* every pair of a file name and a frontmatter value                       *)
(***************************************************************************)
N_both == <<"a">> \o InstructionMarker \o PromptMarker
N_upper == <<"A", ".", "P", "R", "O", "M", "P", "T", ".", "M", "D">>
N_mixed ==
    <<"a", ".", "I", "N", "S", "T", "R", "U", "C", "T", "I", "O", "N", "S", ".", "M", "D">>
        \o PromptMarker

ClassifyNames == {N_doc, N_prompt, N_instruction, N_both, N_upper, N_mixed}

HeaderKeys == {K_applyTo, K_applyto, K_mode, K_model, K_description}

Headers ==
    {None, Str(<<"x">>), Str(K_mode), List(<<K_mode>>)}
        \cup {Dict([k \in ks |-> <<"v">>]) : ks \in SUBSET HeaderKeys}

InitClassify ==
    /\ pc = "start"
    /\ cname \in ClassifyNames
    /\ cheader \in Headers
    /\ ctype = DOCUMENT
    /\ cmeta = NotYet
    /\ HeaderIdle
    /\ FlowIdle
    /\ CatalogIdle
    /\ OrderIdle
    /\ MainIdle

Classify ==
    /\ pc = "start"
    /\ ctype' = _determine_file_type(cname, cheader)
    /\ pc' = "classified"
    /\ UNCHANGED <<cname, cheader, cmeta, headerVars, flowVars, catalogVars, orderVars, mainVars>>

BuildMetadata ==
    /\ pc = "classified"
    /\ cmeta' = _create_metadata(cname, cheader)
    /\ pc' = "built"
    /\ UNCHANGED <<cname, cheader, ctype, headerVars, flowVars, catalogVars, orderVars, mainVars>>

NextClassify == Classify \/ BuildMetadata

SpecClassify == InitClassify /\ [][NextClassify]_vars

(***************************************************************************)
(* Paths: str(path), base_path / file_path                                 *)
(***************************************************************************)
Digit(d) ==
    CASE d = 0 -> "0" [] d = 1 -> "1" [] d = 2 -> "2" [] d = 3 -> "3" [] d = 4 -> "4"
      [] d = 5 -> "5" [] d = 6 -> "6" [] d = 7 -> "7" [] d = 8 -> "8" [] d = 9 -> "9"

\* str(n), the formatting of an integer inside an f-string
RECURSIVE IntToStr(_)
IntToStr(n) == IF n < 10 THEN <<Digit(n)>> ELSE IntToStr(n \div 10) \o <<Digit(n % 10)>>

NonEmptySeg(seg) == seg # <<>>

\* base / file_path: an absolute operand replaces the base, empty segments vanish
PathJoin(base, file_path) ==
    IF file_path # <<>> /\ file_path[1] = "/"
    THEN SelectSeq(SplitOn(file_path, "/"), NonEmptySeg)
    ELSE base \o SelectSeq(SplitOn(file_path, "/"), NonEmptySeg)

\* str(path) of an absolute path
RECURSIVE PathStr(_)
PathStr(path) ==
    IF path = <<>> THEN <<>> ELSE <<"/">> \o Head(path) \o PathStr(Tail(path))

(***************************************************************************)
(* PromptFlowReader.append_and_print_prompt_context                        *)
(***************************************************************************)
\* the separator rule, 50 characters wide (the source draws it with U+2500)
Rule == [k \in 1..50 |-> "-"]

PromptHeader(i, f) ==
    <<"#", " ", "P", "r", "o", "m", "p", "t", " ">> \o IntToStr(i) \o <<":", " ">> \o PathName(f.file_path) \o <<NL>>
        \o <<"#", " ", "P", "a", "t", "h", ":", " ">> \o PathStr(f.file_path) \o <<NL>>
        \o (IF Truthy(f.metadata.description)
            THEN <<"#", " ", "D", "e", "s", "c", "r", "i", "p", "t", "i", "o", "n", ":", " ">> \o f.metadata.description.val \o <<NL>> ELSE <<>>)
        \o (IF Truthy(f.metadata.mode)
            THEN <<"#", " ", "M", "o", "d", "e", ":", " ">> \o f.metadata.mode.val \o <<NL>> ELSE <<>>)
        \o (IF Truthy(f.metadata.model)
            THEN <<"#", " ", "M", "o", "d", "e", "l", ":", " ">> \o f.metadata.model.val \o <<NL>> ELSE <<>>)
        \o <<NL>>

\* slip: the body is appended before its header
RECURSIVE ContextPieces_bodyfirst(_, _)
ContextPieces_bodyfirst(prompt_files, i) ==
    IF i > Len(prompt_files) THEN <<>>
    ELSE <<prompt_files[i].content,
           PromptHeader(i, prompt_files[i]),
           <<NL>> \o Rule \o <<NL>>>>
         \o ContextPieces_bodyfirst(prompt_files, i + 1)

\* the list combined_context after the loop of lines 498-517
RECURSIVE ContextPieces(_, _)
ContextPieces(prompt_files, i) ==
    IF i > Len(prompt_files) THEN <<>>
    ELSE <<PromptHeader(i, prompt_files[i]),
           prompt_files[i].content,
           <<NL>> \o Rule \o <<NL>>>>
         \o ContextPieces(prompt_files, i + 1)

append_and_print_prompt_context(prompt_files) ==
    IF prompt_files = <<>> THEN <<>>
    ELSE Join(ContextPieces(prompt_files, 1))

(***************************************************************************)
(* The flow: step descriptors and the file tree they refer to              *)
(***************************************************************************)
BasePath == << <<"w">> >>

T_prompt == Join(<<L_sentinel, L_mode, L_sentinel, L_scalar>>)
T_modedoc == Join(<<L_sentinel, L_mode, L_sentinel, <<"y", "y">>, L_blank>>)
T_plain == <<"p", "l", "a", "i", "n">>
T_scalarheader == Join(<<L_sentinel, L_scalar, L_sentinel, L_scalar>>)

F_prompt == N_prompt
F_plain == <<"d", ".", "m", "d">>
F_scalarheader == <<"s", ".", "m", "d">>
F_missing == <<"m", ".", "m", "d">>

\* what exists below the base directory; every other path is missing
FlowFS ==
    (BasePath :> Directory)
        @@ (PathJoin(BasePath, F_prompt) :> File(T_prompt))
        @@ (PathJoin(BasePath, F_plain) :> File(T_plain))
        @@ (PathJoin(BasePath, F_scalarheader) :> File(T_scalarheader))

Lookup(fs, path) == IF path \in DOMAIN fs THEN fs[path] ELSE Missing

StepNames == {<<"s", "t", "e", "p", "_", "1">>}
StepFiles == {F_prompt, F_plain, F_scalarheader, F_missing}
StepKeys == {"step", "file", "required"}

\* a step descriptor is a dict; any of its keys may be absent
Steps ==
    {[k \in ks |-> full[k]] :
        full \in [step : StepNames, file : StepFiles, required : BOOLEAN],
        ks \in SUBSET StepKeys}

Flows == UNION {[1..n -> Steps] : n \in 1..MaxSteps}

FlowName == <<"f">>

(***************************************************************************)
(* PromptFlowReader.execute_flow                                           *)
(***************************************************************************)
\* step.get(key, default)
StepGet(step, key, default) == IF key \in DOMAIN step THEN step[key] ELSE default

\* slip: the default name counts the steps from 0
StepName_fromzero(step, i) ==
    StepGet(step, "step", <<"s", "t", "e", "p", "_">> \o IntToStr(i - 1))

StepName(step, i) == StepGet(step, "step", <<"s", "t", "e", "p", "_">> \o IntToStr(i))
StepFile(step) == StepGet(step, "file", <<>>)
StepRequired(step) == StepGet(step, "required", TRUE)

\* d[key] = value on an insertion-ordered dict kept as a sequence of items
DictSet(d, key, value) ==
    IF \E j \in 1..Len(d) : d[j].key = key
    THEN [j \in 1..Len(d) |-> IF d[j].key = key THEN [key |-> key, value |-> value] ELSE d[j]]
    ELSE Append(d, [key |-> key, value |-> value])

\* list(d.values())
DictValues(d) == [j \in 1..Len(d) |-> d[j].value]

Success(name, file, n) ==
    [step |-> name, file |-> file, status |-> "success", content_length |-> n]
Error(name, file, e) == [step |-> name, file |-> file, status |-> "error", error |-> e]
Skipped(name, file) ==
    [step |-> name, file |-> file, status |-> "skipped", reason |-> "Optional file not found"]

\* slip: no `except Exception` around the read, so a failing read records nothing
RecordStep_noexcept(res, step_name, file_path, required, entry, read) ==
    IF Exists(entry)
    THEN IF read.raised = "none"
         THEN [res EXCEPT
                !.files_processed = DictSet(@, step_name, read.value),
                !.steps_executed =
                    Append(@, Success(step_name, file_path, Len(read.value.content)))]
         ELSE res
    ELSE IF required
         THEN [res EXCEPT
                !.steps_executed = Append(@, Error(step_name, file_path, "File not found"))]
         ELSE [res EXCEPT
                !.steps_executed = Append(@, Skipped(step_name, file_path))]

\* lines 185-227: what the step leaves in results, `read` being the outcome of
\* read_file on the resolved path
RecordStep(res, step_name, file_path, required, entry, read) ==
    IF Exists(entry)
    THEN IF read.raised = "none"
         THEN [res EXCEPT
                !.files_processed = DictSet(@, step_name, read.value),
                !.steps_executed =
                    Append(@, Success(step_name, file_path, Len(read.value.content)))]
         ELSE [res EXCEPT
                !.steps_executed = Append(@, Error(step_name, file_path, read.raised))]
    ELSE IF required
         THEN [res EXCEPT
                !.steps_executed = Append(@, Error(step_name, file_path, "File not found"))]
         ELSE [res EXCEPT
                !.steps_executed = Append(@, Skipped(step_name, file_path))]

\* lines 187-189
ProcessStep(res, step, i, full_path) ==
    RecordStep(res, StepName(step, i), StepFile(step), StepRequired(step),
               Lookup(FlowFS, full_path),
               read_file(full_path, Lookup(FlowFS, full_path)))

\* one iteration of the loop of lines 172-227
ExecStep(res, step, i) == ProcessStep(res, step, i, PathJoin(BasePath, StepFile(step)))

IsPromptFile(f) == f.metadata.file_type = PROMPT

\* lines 233-234
AttachContext(res, prompt_files) ==
    IF prompt_files # <<>>
    THEN [res EXCEPT !.combined_context = append_and_print_prompt_context(prompt_files)]
    ELSE res

\* lines 229-234
CombinePrompts(res) ==
    AttachContext(res, SelectSeq(DictValues(res.files_processed), IsPromptFile))

(***************************************************************************)
(* SpecFlow: execute_flow on every non-empty flow                          *)
(***************************************************************************)
InitFlow ==
    /\ pc = "start"
    /\ flow \in Flows
    /\ step_i = 0
    /\ results = NoResults
    /\ HeaderIdle
    /\ ClassifyIdle
    /\ CatalogIdle
    /\ OrderIdle
    /\ MainIdle

BeginFlow ==
    /\ pc = "start"
    /\ flow # <<>>
    /\ results' = [NoResults EXCEPT !.flow_name = FlowName]
    /\ pc' = "loop"
    /\ UNCHANGED <<flow, step_i, headerVars, classifyVars, catalogVars, orderVars, mainVars>>

FlowStep ==
    /\ pc = "loop"
    /\ step_i < Len(flow)
    /\ results' = ExecStep(results, flow[step_i + 1], step_i + 1)
    /\ step_i' = step_i + 1
    /\ UNCHANGED <<pc, flow, headerVars, classifyVars, catalogVars, orderVars, mainVars>>

FinishFlow ==
    /\ pc = "loop"
    /\ step_i = Len(flow)
    /\ results' = CombinePrompts(results)
    /\ pc' = "done"
    /\ UNCHANGED <<flow, step_i, headerVars, classifyVars, catalogVars, orderVars, mainVars>>

NextFlow == BeginFlow \/ FlowStep \/ FinishFlow

SpecFlow == InitFlow /\ [][NextFlow]_vars

(***************************************************************************)
(* Path.glob and the ordering of paths                                     *)
(***************************************************************************)
\* the characters of the model's paths, in code-point order
Alphabet ==
    <<"-", ".", "0", "1", "2", "3", "4", "5", "6", "7", "8", "9", "A", "B", "C", "D",
      "E", "F", "G", "H", "I", "J", "K", "L", "M", "N", "O", "P", "Q", "R", "S", "T",
      "U", "V", "W", "X", "Y", "Z", "_", "a", "b", "c", "d", "e", "f", "g", "h", "i",
      "j", "k", "l", "m", "n", "o", "p", "q", "r", "s", "t", "u", "v", "w", "x", "y",
      "z">>

Ord(c) == CHOOSE k \in 1..Len(Alphabet) : Alphabet[k] = c

\* a < b on strings
RECURSIVE StrLess(_, _)
StrLess(a, b) ==
    IF b = <<>> THEN FALSE
    ELSE IF a = <<>> THEN TRUE
    ELSE IF Head(a) # Head(b) THEN Ord(Head(a)) < Ord(Head(b))
    ELSE StrLess(Tail(a), Tail(b))

\* a < b on paths: part by part
RECURSIVE PathLess(_, _)
PathLess(a, b) ==
    IF b = <<>> THEN FALSE
    ELSE IF a = <<>> THEN TRUE
    ELSE IF Head(a) # Head(b) THEN StrLess(Head(a), Head(b))
    ELSE PathLess(Tail(a), Tail(b))

\* one pattern segment against one name: a literal, or `*` followed by a suffix
SegMatch(pat, name) ==
    IF pat # <<>> /\ pat[1] = "*" THEN EndsWith(name, Tail(pat)) ELSE pat = name

\* pattern segments against the segments of a path below the base; `**`
\* stands for any number of directories
RECURSIVE MatchSegs(_, _)
MatchSegs(pat, rel) ==
    IF pat = <<>> THEN rel = <<>>
    ELSE IF Head(pat) = <<"*", "*">>
         THEN MatchSegs(Tail(pat), rel) \/ (rel # <<>> /\ MatchSegs(pat, Tail(rel)))
    ELSE rel # <<>> /\ SegMatch(Head(pat), Head(rel)) /\ MatchSegs(Tail(pat), Tail(rel))

IsBelow(base, path) ==
    Len(path) > Len(base) /\ SubSeq(path, 1, Len(base)) = base

\* base_path.glob(pattern): the existing paths below the base that match
Glob(fs, base, pattern) ==
    {path \in DOMAIN fs :
        /\ IsBelow(base, path)
        /\ MatchSegs(SplitOn(pattern, "/"), SubSeq(path, Len(base) + 1, Len(path)))}

\* the paths of a set in the order the directory scan happens to yield them
RECURSIVE SetToSeq(_)
SetToSeq(S) ==
    IF S = {} THEN <<>>
    ELSE LET x == CHOOSE y \in S : TRUE IN <<x>> \o SetToSeq(S \ {x})

ToSet(seq) == {seq[k] : k \in 1..Len(seq)}

\* sorted(paths) of a list
RECURSIVE Insert(_, _)
Insert(sorted, x) ==
    IF sorted = <<>> THEN <<x>>
    ELSE IF PathLess(x, Head(sorted)) THEN <<x>> \o sorted
    ELSE <<Head(sorted)>> \o Insert(Tail(sorted), x)

RECURSIVE Sorted(_)
Sorted(seq) == IF seq = <<>> THEN <<>> ELSE Insert(Sorted(Tail(seq)), Head(seq))

(***************************************************************************)
(* PromptFlowReader.find_files_by_pattern                                  *)
(***************************************************************************)
\* found_files after the loop of lines 376-377
RECURSIVE FoundFiles(_, _, _)
FoundFiles(fs, pats, k) ==
    IF k > Len(pats) THEN <<>>
    ELSE SetToSeq(Glob(fs, BasePath, pats[k])) \o FoundFiles(fs, pats, k + 1)

\* [f for f in paths if f.is_file()]
RECURSIVE OnlyFiles(_, _)
OnlyFiles(fs, paths) ==
    IF paths = <<>> THEN <<>>
    ELSE IF IsFile(Lookup(fs, Head(paths)))
         THEN <<Head(paths)>> \o OnlyFiles(fs, Tail(paths))
    ELSE OnlyFiles(fs, Tail(paths))

\* slip: sorted(found_files) without set(): a path matched twice stays twice
find_files_by_pattern_nodedupe(fs, pats) ==
    OnlyFiles(fs, Sorted(FoundFiles(fs, pats, 1)))

find_files_by_pattern(fs, pats) ==
    OnlyFiles(fs, Sorted(SetToSeq(ToSet(FoundFiles(fs, pats, 1)))))

(***************************************************************************)
(* PromptFlowReader.__init__: the default patterns                         *)
(***************************************************************************)
instruction_patterns ==
    <<<<".", "g", "i", "t", "h", "u", "b", "/", "i", "n", "s", "t", "r", "u", "c", "t", "i", "o", "n", "s", "/", "*", "*", "/", "*", ".", "i", "n", "s", "t", "r", "u", "c", "t", "i", "o", "n", "s", ".", "m", "d">>,
      <<"i", "n", "s", "t", "r", "u", "c", "t", "i", "o", "n", "s", "/", "*", "*", "/", "*", ".", "i", "n", "s", "t", "r", "u", "c", "t", "i", "o", "n", "s", ".", "m", "d">>,
      <<"*", "*", "/", "*", ".", "i", "n", "s", "t", "r", "u", "c", "t", "i", "o", "n", "s", ".", "m", "d">>>>

prompt_patterns ==
    <<<<".", "g", "i", "t", "h", "u", "b", "/", "p", "r", "o", "m", "p", "t", "s", "/", "*", "*", "/", "*", ".", "p", "r", "o", "m", "p", "t", ".", "m", "d">>,
      <<"p", "r", "o", "m", "p", "t", "s", "/", "*", "*", "/", "*", ".", "p", "r", "o", "m", "p", "t", ".", "m", "d">>,
      <<"*", "*", "/", "*", ".", "p", "r", "o", "m", "p", "t", ".", "m", "d">>>>

doc_patterns ==
    <<<<"d", "o", "c", "s", "/", "*", "*", "/", "*", ".", "m", "d">>,
      <<"*", ".", "m", "d">>>>

(***************************************************************************)
(* read_instruction_files, read_prompt_files, read_all_files               *)
(***************************************************************************)
\* one more element of a list comprehension of reads: a raise ends it
ReadCons(first, rest) ==
    IF first.raised # "none" THEN Raised(first.raised)
    ELSE IF rest.raised # "none" THEN Raised(rest.raised)
    ELSE Returned(<<first.value>> \o rest.value)

\* [self.read_file(f) for f in paths]: the first read that raises ends it
RECURSIVE ReadEach(_, _)
ReadEach(fs, paths) ==
    IF paths = <<>> THEN Returned(<<>>)
    ELSE ReadCons(read_file(Head(paths), Lookup(fs, Head(paths))),
                  ReadEach(fs, Tail(paths)))

read_instruction_files(fs) == ReadEach(fs, find_files_by_pattern(fs, instruction_patterns))

read_prompt_files(fs) == ReadEach(fs, find_files_by_pattern(fs, prompt_patterns))

NotIn(paths, excluded) ==
    SelectSeq(paths, LAMBDA f : f \notin excluded)

\* lines 422-426
Bucketed(instructions, prompts, documents) ==
    IF documents.raised # "none" THEN Raised(documents.raised)
    ELSE Returned([instructions |-> instructions,
                   prompts |-> prompts,
                   documents |-> documents.value])

\* slip: the documents are not filtered against the paths already processed
ReadDocuments_nofilter(fs, instructions, prompts, doc_files) ==
    IF instructions.raised # "none" THEN Raised(instructions.raised)
    ELSE IF prompts.raised # "none" THEN Raised(prompts.raised)
    ELSE Bucketed(instructions.value, prompts.value, ReadEach(fs, doc_files))

\* lines 414-426
ReadDocuments(fs, instructions, prompts, doc_files) ==
    IF instructions.raised # "none" THEN Raised(instructions.raised)
    ELSE IF prompts.raised # "none" THEN Raised(prompts.raised)
    ELSE Bucketed(instructions.value, prompts.value,
                  ReadEach(fs, NotIn(doc_files,
                      {f.file_path : f \in ToSet(instructions.value \o prompts.value)})))

read_all_files(fs) ==
    ReadDocuments(fs, read_instruction_files(fs), read_prompt_files(fs),
                  find_files_by_pattern(fs, doc_patterns))

(***************************************************************************)
(* SpecCatalog: discovery and the bucketed read on every file tree         *)
(***************************************************************************)
D_docs == <<"d", "o", "c", "s">>
D_instructions == <<"i", "n", "s", "t", "r", "u", "c", "t", "i", "o", "n", "s">>
N_dirprompt == <<"z">> \o PromptMarker
N_c == <<"c">> \o InstructionMarker
N_e == <<"e", ".", "m", "d">>

\* the entries a tree is drawn from (paths below the base)
Candidates ==
    (<<N_prompt>> :> File(T_prompt))
        @@ (<<D_docs, N_instruction>> :> File(T_plain))
        @@ (<<D_instructions, N_c>> :> File(T_plain))
        @@ (<<D_docs, N_doc>> :> File(T_modedoc))
        @@ (<<N_e>> :> File(T_plain))
        @@ (<<N_dirprompt>> :> Directory)
        @@ (<<F_scalarheader>> :> File(T_scalarheader))

\* the chosen entries, the directories above them and the base directory
TreeOf(chosen) ==
    [path \in {BasePath \o rel : rel \in chosen}
              \cup UNION {{BasePath \o SubSeq(rel, 1, n) : n \in 0..(Len(rel) - 1)} :
                             rel \in chosen}
        |-> IF \E rel \in chosen : path = BasePath \o rel
            THEN Candidates[SubSeq(path, Len(BasePath) + 1, Len(path))]
            ELSE Directory]

Trees == {TreeOf(chosen) : chosen \in SUBSET DOMAIN Candidates}

PatternPool ==
    ToSet(instruction_patterns) \cup {prompt_patterns[3]} \cup ToSet(doc_patterns)

PatternLists == UNION {[1..n -> PatternPool] : n \in 0..MaxPatterns}

InitCatalog ==
    /\ pc = "start"
    /\ tree \in Trees
    /\ patterns = <<>>
    /\ found = <<>>
    /\ buckets = NotYet
    /\ HeaderIdle
    /\ ClassifyIdle
    /\ FlowIdle
    /\ OrderIdle
    /\ MainIdle

FindFiles ==
    /\ pc = "start"
    /\ \E pats \in PatternLists :
           /\ patterns' = pats
           /\ found' = find_files_by_pattern(tree, pats)
    /\ pc' = "found"
    /\ UNCHANGED <<tree, buckets, headerVars, classifyVars, flowVars, orderVars, mainVars>>

ReadAll ==
    /\ pc = "start"
    /\ buckets' = read_all_files(tree)
    /\ pc' = "readall"
    /\ UNCHANGED <<tree, patterns, found, headerVars, classifyVars, flowVars, orderVars, mainVars>>

NextCatalog == FindFiles \/ ReadAll

SpecCatalog == InitCatalog /\ [][NextCatalog]_vars

(***************************************************************************)
(* PromptFlowReader.read_files_in_order                                    *)
(***************************************************************************)
\* what the call leaves: the records it returns (or the exception it lets
\* through) and the paths it printed a warning for
Ordered(processed_files, warnings) ==
    [raised |-> "none", value |-> processed_files, warnings |-> warnings]
Aborted(e, warnings) == [raised |-> e, warnings |-> warnings]

RECURSIVE OrderLoop(_, _, _, _, _)
RECURSIVE OrderRead(_, _, _, _, _, _, _)

\* lines 442-446: the try block, `read` being the outcome of read_file
OrderRead(fs, paths, k, processed_files, warnings, file_path, read) ==
    IF read.raised = "none"
    THEN OrderLoop(fs, paths, k + 1, Append(processed_files, read.value), warnings)
    ELSE IF read.raised \in {"FileNotFoundError", "IOError"}
    THEN OrderLoop(fs, paths, k + 1, processed_files, Append(warnings, file_path))
    ELSE Aborted(read.raised, warnings)

\* lines 440-448: the loop from the k-th path on
OrderLoop(fs, paths, k, processed_files, warnings) ==
    IF k > Len(paths) THEN Ordered(processed_files, warnings)
    ELSE OrderRead(fs, paths, k, processed_files, warnings,
                   PathJoin(BasePath, paths[k]),
                   read_file(PathJoin(BasePath, paths[k]),
                             Lookup(fs, PathJoin(BasePath, paths[k]))))

read_files_in_order(fs, paths) == OrderLoop(fs, paths, 1, <<>>, <<>>)

(***************************************************************************)
(* SpecOrder: read_files_in_order on every list of paths, and              *)
(* append_and_print_prompt_context on the records it returned              *)
(***************************************************************************)
L_description == <<"d", "e", "s", "c", "r", "i", "p", "t", "i", "o", "n", ":", " ", "d">>
L_model == <<"m", "o", "d", "e", "l", ":", " ", "m">>
T_described == Join(<<L_sentinel, L_description, L_model, L_sentinel, <<"q">>, <<"r">>>>)

F_described == <<"e">> \o PromptMarker
F_undecodable == <<"u", ".", "m", "d">>
F_base == <<>>

\* the tree of the flow, with a second prompt file and a file that is not UTF-8
OrderFS ==
    FlowFS
        @@ (PathJoin(BasePath, F_described) :> File(T_described))
        @@ (PathJoin(BasePath, F_undecodable) :> FaultyFile("decode"))

OrderFiles ==
    {F_prompt, F_described, F_plain, F_scalarheader, F_missing, F_undecodable, F_base}

PathLists == UNION {[1..n -> OrderFiles] : n \in 0..MaxPaths}

InitOrder ==
    /\ pc = "start"
    /\ file_paths \in PathLists
    /\ ordered = NotYet
    /\ combined = <<>>
    /\ HeaderIdle
    /\ ClassifyIdle
    /\ FlowIdle
    /\ CatalogIdle
    /\ MainIdle

ReadInOrder ==
    /\ pc = "start"
    /\ ordered' = read_files_in_order(OrderFS, file_paths)
    /\ pc' = "ordered"
    /\ UNCHANGED <<file_paths, combined, headerVars, classifyVars, flowVars, catalogVars, mainVars>>

Combine ==
    /\ pc = "ordered"
    /\ ordered.raised = "none"
    /\ combined' = append_and_print_prompt_context(ordered.value)
    /\ pc' = "combined"
    /\ UNCHANGED <<file_paths, ordered, headerVars, classifyVars, flowVars, catalogVars, mainVars>>

NextOrder == ReadInOrder \/ Combine

SpecOrder == InitOrder /\ [][NextOrder]_vars

(***************************************************************************)
(* FlowConfig and PromptFlowReader.load_config.  The configuration file is *)
(* kept as what yaml.safe_load makes of it: an error, or the value of the  *)
(* document.  A step of the flow that is not a map is kept as              *)
(* [scalar |-> its text].                                                  *)
(***************************************************************************)
ConfigDoc(parsed) == [kind |-> "file", parsed |-> parsed]

\* config_data.get(key, default)
ConfigGet(config_data, key, default) ==
    IF key \in DOMAIN config_data.items THEN config_data.items[key] ELSE default

\* a field of FlowConfig after __post_init__ (lines 53-63)
OrDefault(v, default) == IF v = None THEN default ELSE v

FlowConfig(name, steps, file_patterns, output) ==
    [kind |-> "config",
     name |-> name,
     flow |-> OrDefault(steps, List(<<>>)),
     file_patterns |-> OrDefault(file_patterns,
                                 Dict([include |-> List(<<>>), exclude |-> List(<<>>)])),
     output |-> OrDefault(output, Dict([format |-> "combined"]))]

\* lines 136-145, config_data being what yaml.safe_load returned
BuildConfig(config_data) ==
    IF ~IsDict(config_data) THEN Raised("AttributeError")   \* no .get
    ELSE Returned(FlowConfig(ConfigGet(config_data, "name", <<"u", "n", "n", "a", "m", "e", "d", "_", "f", "l", "o", "w">>),
                             ConfigGet(config_data, "flow", List(<<>>)),
                             ConfigGet(config_data, "file_patterns", EmptyDict),
                             ConfigGet(config_data, "output", EmptyDict)))

load_config(entry) ==
    IF ~Exists(entry) THEN Raised("FileNotFoundError")
    ELSE IF entry.kind = "dir" THEN Raised("IOError")
    ELSE IF entry.parsed.raised # "none" THEN Raised(entry.parsed.raised)
    ELSE BuildConfig(entry.parsed.value)

(***************************************************************************)
(* PromptFlowReader.__init__ and the reads of a reader built from a config *)
(***************************************************************************)
\* self.config_patterns / self.exclude_patterns (lines 103-112); None stands
\* for an attribute that is never set
ConfigPatterns(cfg, key) ==
    IF cfg # None /\ Truthy(cfg.file_patterns)
    THEN (IF key \in DOMAIN cfg.file_patterns.items
          THEN cfg.file_patterns.items[key] ELSE None)
    ELSE List(<<>>)

\* slip: the include list of the configuration replaces the default patterns
PromptFlowReader_wired(cfg) ==
    [config |-> cfg,
     instruction_patterns |->
        (IF Truthy(ConfigPatterns(cfg, "include"))
         THEN ConfigPatterns(cfg, "include").elems ELSE instruction_patterns),
     prompt_patterns |-> prompt_patterns,
     doc_patterns |-> doc_patterns,
     config_patterns |-> ConfigPatterns(cfg, "include"),
     exclude_patterns |-> ConfigPatterns(cfg, "exclude")]

PromptFlowReader(cfg) ==
    [config |-> cfg,
     instruction_patterns |-> instruction_patterns,
     prompt_patterns |-> prompt_patterns,
     doc_patterns |-> doc_patterns,
     config_patterns |-> ConfigPatterns(cfg, "include"),
     exclude_patterns |-> ConfigPatterns(cfg, "exclude")]

\* self.read_all_files()
ReaderReadAll(self, fs) ==
    ReadDocuments(fs,
                  ReadEach(fs, find_files_by_pattern(fs, self.instruction_patterns)),
                  ReadEach(fs, find_files_by_pattern(fs, self.prompt_patterns)),
                  find_files_by_pattern(fs, self.doc_patterns))

(***************************************************************************)
(* main: what it does to the file system, and the dry run                  *)
(***************************************************************************)
GlobOp(pattern) == [op |-> "glob", pattern |-> pattern]
ReadOp(path) == [op |-> "read", path |-> path]
WriteOp(path) == [op |-> "write", path |-> path]

GlobOps(pats) == [k \in 1..Len(pats) |-> GlobOp(pats[k])]

\* the reads of [self.read_file(f) for f in paths]: the first that raises is the last
RECURSIVE ReadOps(_, _)
ReadOps(fs, paths) ==
    IF paths = <<>> THEN <<>>
    ELSE IF read_file(Head(paths), Lookup(fs, Head(paths))).raised # "none"
         THEN <<ReadOp(Head(paths))>>
    ELSE <<ReadOp(Head(paths))>> \o ReadOps(fs, Tail(paths))

AllRead(fs, paths) == ReadEach(fs, paths).raised = "none"

\* lines 414-420, once the instructions and the prompts have been read
DocumentOps(self, fs, read_before) ==
    GlobOps(self.doc_patterns)
        \o ReadOps(fs, NotIn(find_files_by_pattern(fs, self.doc_patterns), ToSet(read_before)))

\* line 412 onwards, once the instructions have been read
PromptOps(self, fs, instruction_files, prompt_files) ==
    GlobOps(self.prompt_patterns)
        \o ReadOps(fs, prompt_files)
        \o (IF AllRead(fs, prompt_files)
            THEN DocumentOps(self, fs, instruction_files \o prompt_files) ELSE <<>>)

InstructionOps(self, fs, instruction_files) ==
    GlobOps(self.instruction_patterns)
        \o ReadOps(fs, instruction_files)
        \o (IF AllRead(fs, instruction_files)
            THEN PromptOps(self, fs, instruction_files,
                           find_files_by_pattern(fs, self.prompt_patterns))
            ELSE <<>>)

\* the globs and reads of self.read_all_files(), in order
ReadAllOps(self, fs) ==
    InstructionOps(self, fs, find_files_by_pattern(fs, self.instruction_patterns))

OutputName ==
    <<"c", "o", "m", "b", "i", "n", "e", "d", "_", "p", "r", "o", "m", "p", "t", "_",
      "c", "o", "n", "t", "e", "x", "t", ".", "m", "d">>

\* config.output.get('format') == 'combined' and results.get('combined_context')
SavesCombined(cfg, text) ==
    /\ "format" \in DOMAIN cfg.output.items
    /\ cfg.output.items.format = "combined"
    /\ text # <<>>

IsStepMap(step) == "scalar" \notin DOMAIN step

Listed(e, lines) == [raised |-> e, value |-> lines]

\* slip: the steps are numbered from 0
RECURSIVE DryLoop_fromzero(_, _, _)
DryLoop_fromzero(steps, i, lines) ==
    IF i > Len(steps) THEN Listed("none", lines)
    ELSE IF ~IsStepMap(steps[i]) THEN Listed("AttributeError", lines)
    ELSE DryLoop_fromzero(steps, i + 1,
                 Append(lines, [i |-> i - 1,
                                step_name |-> StepName(steps[i], i - 1),
                                file_path |-> StepGet(steps[i], "file", <<"N", "/", "A">>)]))

\* the loop of lines 621-624 from the i-th step on; step.get raises on a
\* step that is not a map
RECURSIVE DryLoop(_, _, _)
DryLoop(steps, i, lines) ==
    IF i > Len(steps) THEN Listed("none", lines)
    ELSE IF ~IsStepMap(steps[i]) THEN Listed("AttributeError", lines)
    ELSE DryLoop(steps, i + 1,
                 Append(lines, [i |-> i,
                                step_name |-> StepName(steps[i], i),
                                file_path |-> StepGet(steps[i], "file", <<"N", "/", "A">>)]))

\* lines 617-625
DryList(cfg) ==
    IF cfg # None /\ Truthy(cfg.flow) THEN DryLoop(cfg.flow.elems, 1, <<>>)
    ELSE Listed("none", <<>>)

(***************************************************************************)
(* SpecMain: main on every command line, configuration file and tree       *)
(***************************************************************************)
P_anymd == doc_patterns[2]
P_docs == doc_patterns[1]

MainSteps ==
    {[file |-> F_prompt],
     [step |-> <<"s", "t", "e", "p", "_", "1">>],
     [file |-> F_missing, required |-> FALSE],
     [scalar |-> <<"o", "o", "p", "s">>]}

MainFlows == UNION {[1..n -> MainSteps] : n \in 0..MaxSteps}

FilePatterns ==
    {Dict([include |-> List(<<P_anymd>>)]),
     Dict([include |-> List(<<P_docs>>), exclude |-> List(<<P_anymd>>)])}

ConfigKeys == {"flow", "file_patterns", "output"}

\* the top-level maps a configuration file can hold; any key may be absent
ConfigDatas ==
    {[k \in ks |-> full[k]] :
        full \in [flow : {List(f) : f \in MainFlows},
                  file_patterns : FilePatterns,
                  output : {Dict([format |-> "combined"])}],
        ks \in SUBSET ConfigKeys}

ConfigFiles ==
    {Missing, Directory, ConfigDoc(Raised("YAMLError")),
     ConfigDoc(Returned(None)), ConfigDoc(Returned(Str(<<"x">>)))}
        \cup {ConfigDoc(Returned(Dict(d))) : d \in ConfigDatas}

\* the run executes the steps of a flow
RunsSteps(entry) ==
    /\ load_config(entry).raised = "none"
    /\ Truthy(load_config(entry).value.flow)

\* a run that executes steps is set in the tree of the flow; a run that
\* discovers files is set in one of these
MainTrees ==
    {TreeOf({}),
     TreeOf({<<N_prompt>>, <<D_docs, N_doc>>, <<D_docs, N_instruction>>, <<N_e>>}),
     TreeOf({<<N_prompt>>, <<F_scalarheader>>})}

InitMain ==
    /\ pc = "start"
    /\ args \in [flow : BOOLEAN, dry_run : BOOLEAN]
    /\ config_file \in (IF args.flow THEN ConfigFiles ELSE {Missing})
    /\ tree \in (IF args.flow /\ RunsSteps(config_file) THEN {FlowFS} ELSE MainTrees)
    /\ config = None
    /\ touched = <<>>
    /\ listing = <<>>
    /\ exit_code = -1
    /\ patterns = <<>>
    /\ found = <<>>
    /\ buckets = NotYet
    /\ HeaderIdle
    /\ ClassifyIdle
    /\ FlowIdle
    /\ OrderIdle

\* lines 594-611.  An exception the handler of line 609 does not catch ends
\* the process with status 1 as well.
LoadConfig ==
    /\ pc = "start"
    /\ IF ~args.flow
       THEN /\ config' = None
            /\ pc' = "loaded"
            /\ exit_code' = exit_code
       ELSE IF load_config(config_file).raised = "none"
       THEN /\ config' = load_config(config_file).value
            /\ pc' = "loaded"
            /\ exit_code' = exit_code
       ELSE /\ config' = None
            /\ pc' = "exit"
            /\ exit_code' = 1
    /\ UNCHANGED <<args, config_file, touched, listing, headerVars, classifyVars, flowVars, catalogVars, orderVars>>

\* lines 615-625
DryRun ==
    /\ pc = "loaded"
    /\ args.dry_run
    /\ listing' = DryList(config).value
    /\ exit_code' = (IF DryList(config).raised = "none" THEN 0 ELSE 1)
    /\ pc' = "exit"
    /\ UNCHANGED <<args, config_file, config, touched, headerVars, classifyVars, flowVars, catalogVars, orderVars>>

\* lines 628-629 and 156-170: execute_flow on a flow with steps
MainBegin ==
    /\ pc = "loaded"
    /\ ~args.dry_run
    /\ config # None
    /\ Truthy(config.flow)
    /\ flow' = config.flow.elems
    /\ step_i' = 0
    /\ results' = [NoResults EXCEPT !.flow_name = config.name]
    /\ pc' = "loop"
    /\ UNCHANGED <<mainVars, headerVars, classifyVars, catalogVars, orderVars>>

\* one iteration of the loop of lines 172-227, which opens the step's file
\* when it is one; an exception of line 173 leaves execute_flow and is caught
\* at line 679
MainStep ==
    /\ pc = "loop"
    /\ step_i < Len(flow)
    /\ IF IsStepMap(flow[step_i + 1])
       THEN /\ results' = ExecStep(results, flow[step_i + 1], step_i + 1)
            /\ step_i' = step_i + 1
            /\ touched' =
                   (IF IsFile(Lookup(FlowFS, PathJoin(BasePath, StepFile(flow[step_i + 1]))))
                    THEN Append(touched, ReadOp(PathJoin(BasePath, StepFile(flow[step_i + 1]))))
                    ELSE touched)
            /\ UNCHANGED <<pc, exit_code>>
       ELSE /\ pc' = "exit"
            /\ exit_code' = 1
            /\ UNCHANGED <<results, step_i, touched>>
    /\ UNCHANGED <<flow, args, config_file, config, listing, headerVars, classifyVars, catalogVars, orderVars>>

\* lines 229-237 and 632-639, 677
MainFinish ==
    /\ pc = "loop"
    /\ step_i = Len(flow)
    /\ results' = CombinePrompts(results)
    /\ IF SavesCombined(config, results'.combined_context)
       THEN /\ touched' = Append(touched, WriteOp(PathJoin(BasePath, OutputName)))
            /\ tree' = (PathJoin(BasePath, OutputName) :> File(results'.combined_context)) @@ tree
       ELSE UNCHANGED <<touched, tree>>
    /\ exit_code' = 0
    /\ pc' = "exit"
    /\ UNCHANGED <<flow, step_i, args, config_file, config, listing, patterns, found, buckets, headerVars, classifyVars, orderVars>>

\* lines 628-629 and 156-158, 239-241: a configuration without steps falls
\* back to read_all_files; the result has no combined_context to save
MainDefaultFlow ==
    /\ pc = "loaded"
    /\ ~args.dry_run
    /\ config # None
    /\ ~Truthy(config.flow)
    /\ buckets' = ReaderReadAll(PromptFlowReader(config), tree)
    /\ touched' = touched \o ReadAllOps(PromptFlowReader(config), tree)
    /\ exit_code' = (IF buckets'.raised = "none" THEN 0 ELSE 1)
    /\ pc' = "exit"
    /\ UNCHANGED <<tree, patterns, found, args, config_file, config, listing, headerVars, classifyVars, flowVars, orderVars>>

\* lines 641-675: no configuration
MainNoConfig ==
    /\ pc = "loaded"
    /\ ~args.dry_run
    /\ config = None
    /\ buckets' = ReaderReadAll(PromptFlowReader(None), tree)
    /\ IF buckets'.raised = "none" /\ buckets'.value.prompts # <<>>
       THEN /\ combined' = append_and_print_prompt_context(buckets'.value.prompts)
            /\ touched' = Append(touched \o ReadAllOps(PromptFlowReader(None), tree),
                                 WriteOp(PathJoin(BasePath, OutputName)))
            /\ tree' = (PathJoin(BasePath, OutputName) :> File(combined')) @@ tree
       ELSE /\ touched' = touched \o ReadAllOps(PromptFlowReader(None), tree)
            /\ UNCHANGED <<combined, tree>>
    /\ exit_code' = (IF buckets'.raised = "none" THEN 0 ELSE 1)
    /\ pc' = "exit"
    /\ UNCHANGED <<patterns, found, file_paths, ordered, args, config_file, config, listing, headerVars, classifyVars, flowVars>>

NextMain ==
    LoadConfig \/ DryRun \/ MainBegin \/ MainStep \/ MainFinish \/ MainDefaultFlow
        \/ MainNoConfig

SpecMain == InitMain /\ [][NextMain]_vars

(***************************************************************************)
(* Properties of _extract_frontmatter                                      *)
(***************************************************************************)
Lines == Split(content)
Opens == Strip(Lines[1]) = Sentinel
Closers == {i \in 2..Len(Lines) : Strip(Lines[i]) = Sentinel}
ExactClosers == {i \in 2..Len(Lines) : Lines[i] = Sentinel}
Least(S) == CHOOSE i \in S : \A j \in S : i <= j
Span(k) == Join(SubSeq(Lines, 2, k - 1))
After(k) == Join(SubSeq(Lines, k + 1, Len(Lines)))
\* the header a span stands for, when it stands for one
SpanIsMap(k) ==
    \/ Strip(Span(k)) = <<>>
    \/ (SafeLoad(Span(k)).raised = "none" /\ IsDict(SafeLoad(Span(k)).value))
SpanMap(k) == IF Strip(Span(k)) = <<>> THEN EmptyDict ELSE SafeLoad(Span(k)).value

\* C3 as stated: a text whose first line is not exactly '---' comes back as
\* (absent header, the text unchanged).
C3_FirstLineNotExactlySentinel ==
    (pc # "start" /\ Lines[1] # Sentinel) => extracted = Extracted(None, content)

\* C3 amended: a text whose first line, stripped of surrounding whitespace, is
\* not '---' comes back as (absent header, the text unchanged).
C3_FirstLineNotSentinel ==
    (pc # "start" /\ ~Opens) => extracted = Extracted(None, content)

C3_Witness ==
    /\ pc = "extracted"
    /\ ~Opens
    /\ Closers # {}
    /\ extracted = Extracted(None, content)

C5_ClosesAtFirstExactSentinel ==
    (/\ pc # "start"
     /\ Lines[1] = Sentinel
     /\ ExactClosers # {}
     /\ SpanIsMap(Least(ExactClosers)))
    => extracted = Extracted(SpanMap(Least(ExactClosers)), After(Least(ExactClosers)))

\* C5 amended: the closing delimiter is the first line after line 1 that is
\* '---' once stripped of surrounding whitespace; the header is the parse of
\* the lines strictly between the delimiters and the body is exactly the
\* lines after the closing delimiter, rejoined with line breaks.
C5_HeaderAndBodySplit ==
    (pc # "start" /\ Opens /\ Closers # {} /\ SpanIsMap(Least(Closers)))
    => extracted = Extracted(SpanMap(Least(Closers)), After(Least(Closers)))

C5_Witness ==
    /\ pc = "extracted"
    /\ Opens
    /\ Cardinality(Closers) >= 1
    /\ Least(Closers) = 3
    /\ Len(Lines) = 4
    /\ IsDict(extracted.frontmatter)
    /\ K_mode \in DOMAIN extracted.frontmatter.items
    /\ extracted.content = Lines[4]
    /\ extracted.content # <<>>

\* C6: when the text between the delimiters fails to parse, the result is
\* (absent header, the text unchanged), and neither _extract_frontmatter nor
\* read_file raises.
C6_ParseFails ==
    /\ Opens
    /\ Closers # {}
    /\ Strip(Span(Least(Closers))) # <<>>
    /\ SafeLoad(Span(Least(Closers))).raised = "YAMLError"

C6_ParseErrorDegrades ==
    /\ (pc # "start" /\ C6_ParseFails) => extracted = Extracted(None, content)
    /\ (pc = "read" /\ C6_ParseFails) =>
           /\ processed.raised = "none"
           /\ processed.value.frontmatter = None
           /\ processed.value.content = content

C6_Witness ==
    /\ pc = "read"
    /\ C6_ParseFails
    /\ processed.raised = "none"
    /\ processed.value.content = content

\* the body the first call returned opens a delimited block of its own
BodyLines == Split(extracted.content)
BodyReopens ==
    /\ Strip(BodyLines[1]) = Sentinel
    /\ \E i \in 2..Len(BodyLines) : Strip(BodyLines[i]) = Sentinel

C16_HeaderAbsentOrMap ==
    /\ pc # "start" =>
           (extracted.frontmatter = None \/ IsDict(extracted.frontmatter))
    /\ pc = "read" => processed.raised = "none"
    /\ (pc # "start" /\ Opens /\ Closers # {} /\ Strip(Span(Least(Closers))) = <<>>)
           => extracted.frontmatter = EmptyDict

\* C18: whenever _extract_frontmatter returns an absent header, the body it
\* returns is the input text unchanged, whatever the parser made of the span.
C18_AbsentHeaderKeepsText ==
    (pc # "start" /\ extracted.frontmatter = None) => extracted.content = content

(***************************************************************************)
(* Properties of _determine_file_type                                      *)
(***************************************************************************)
HeaderIsMapOrAbsent == cheader = None \/ IsDict(cheader)
HeaderHas(key) == IsDict(cheader) /\ key \in DOMAIN cheader.items

\* C7 as stated: a name that contains '.instructions.md' is an Instruction and
\* a name that does not but contains '.prompt.md' is a Prompt, whatever the
\* header holds.
C7_NameMarkerWinsLiteral ==
    pc # "start" =>
        /\ Contains(cname, InstructionMarker) => ctype = INSTRUCTION
        /\ (~Contains(cname, InstructionMarker) /\ Contains(cname, PromptMarker))
               => ctype = PROMPT

\* C7 amended: with the name compared case-insensitively (it is lower-cased
\* first), a name that contains '.instructions.md' is an Instruction and a
\* name that does not but contains '.prompt.md' is a Prompt, whatever the
\* header holds.
C7_NameMarkerWins ==
    pc # "start" =>
        /\ Contains(Lower(cname), InstructionMarker) => ctype = INSTRUCTION
        /\ (~Contains(Lower(cname), InstructionMarker)
                /\ Contains(Lower(cname), PromptMarker))
               => ctype = PROMPT

C7_Witness ==
    /\ pc = "classified"
    /\ Contains(cname, InstructionMarker)
    /\ Contains(cname, PromptMarker)
    /\ HeaderHas(K_mode)
    /\ ~HeaderHas(K_applyTo)
    /\ ctype = INSTRUCTION

\* the category the header keys alone stand for
ByHeader ==
    IF HeaderHas(K_applyTo) \/ HeaderHas(K_applyto) THEN INSTRUCTION
    ELSE IF HeaderHas(K_mode) \/ HeaderHas(K_model) THEN PROMPT
    ELSE DOCUMENT

\* C8 as stated: a name that contains neither '.instructions.md' nor
\* '.prompt.md' is classified by the header keys alone: applyTo/applyto give
\* Instruction, else mode/model give Prompt, else Document.
C8_HeaderDecidesLiteral ==
    (/\ pc # "start"
     /\ HeaderIsMapOrAbsent
     /\ ~Contains(cname, InstructionMarker)
     /\ ~Contains(cname, PromptMarker))
    => ctype = ByHeader

\* C8 amended: a name that, compared case-insensitively, contains neither
\* marker is classified by the header keys alone: applyTo/applyto give
\* Instruction, else mode/model give Prompt, else (no header, empty header,
\* none of these keys) Document.
C8_HeaderDecides ==
    (/\ pc # "start"
     /\ HeaderIsMapOrAbsent
     /\ ~Contains(Lower(cname), InstructionMarker)
     /\ ~Contains(Lower(cname), PromptMarker))
    => ctype = ByHeader

C8_Witness ==
    /\ pc = "classified"
    /\ cname = N_doc
    /\ HeaderHas(K_applyto)
    /\ ~HeaderHas(K_applyTo)
    /\ HeaderHas(K_mode)
    /\ HeaderHas(K_model)
    /\ ctype = INSTRUCTION

(***************************************************************************)
(* Properties of execute_flow                                              *)
(***************************************************************************)
\* facts about the j-th configured step, read off the flow and the file tree
FileRefOf(j) == IF "file" \in DOMAIN flow[j] THEN flow[j].file ELSE <<>>
FullPathOf(j) == PathJoin(BasePath, FileRefOf(j))
EntryOf(j) == Lookup(FlowFS, FullPathOf(j))
RequiredOf(j) == "required" \notin DOMAIN flow[j] \/ flow[j].required
BodyOf(j) == _extract_frontmatter(EntryOf(j).data).content
HeaderOf(j) == _extract_frontmatter(EntryOf(j).data).frontmatter
\* read_file returns a record: a readable regular file whose header is absent,
\* empty or a map
ReadableOf(j) ==
    /\ EntryOf(j).kind = "file"
    /\ EntryOf(j).fault = "none"
    /\ (IsDict(HeaderOf(j)) \/ ~Truthy(HeaderOf(j)))
Outcome(j) == results.steps_executed[j]

AllStepsRecorded ==
    /\ pc \in {"loop", "done"} => Len(results.steps_executed) = step_i
    /\ pc = "done" => step_i = Len(flow)

\* C1 as stated: a step is 'success' (with the body length) when its file
\* exists, 'error' when it is missing and required, 'skipped' when it is
\* missing and optional; every step is recorded and the flow runs to its end.
C1_StatusByExistence ==
    /\ AllStepsRecorded
    /\ \A j \in 1..Len(results.steps_executed) :
           IF Exists(EntryOf(j))
           THEN /\ Outcome(j).status = "success"
                /\ Outcome(j).content_length = Len(BodyOf(j))
           ELSE Outcome(j).status = (IF RequiredOf(j) THEN "error" ELSE "skipped")

\* C1 amended: a step is 'success' (with the body length) when its path exists
\* and read_file returns its record; 'error' when the path exists but reading
\* it raises (a directory, an unreadable file, a header that is not a map) or
\* when it is missing and required; 'skipped' when it is missing and optional;
\* every step is recorded and the flow runs to its end.
C1_StatusByReadOutcome ==
    /\ AllStepsRecorded
    /\ \A j \in 1..Len(results.steps_executed) :
           IF Exists(EntryOf(j))
           THEN IF ReadableOf(j)
                THEN /\ Outcome(j).status = "success"
                     /\ Outcome(j).content_length = Len(BodyOf(j))
                ELSE Outcome(j).status = "error"
           ELSE Outcome(j).status = (IF RequiredOf(j) THEN "error" ELSE "skipped")

C1_Witness ==
    /\ pc = "done"
    /\ Len(flow) = 2
    /\ ~Exists(EntryOf(1))
    /\ RequiredOf(1)
    /\ Outcome(1).status = "error"
    /\ Exists(EntryOf(2))
    /\ Outcome(2).status = "success"
    /\ Outcome(2).content_length > 0

\* the records of the Prompt files some step read successfully
SuccessfulPrompts ==
    {read_file(FullPathOf(j), EntryOf(j)).value :
        j \in {k \in 1..Len(flow) :
                 /\ Outcome(k).status = "success"
                 /\ read_file(FullPathOf(k), EntryOf(k)).value.metadata.file_type = PROMPT}}

\* every way of listing all of S, in at most n places
Arrangements(S, n) ==
    {ps \in UNION {[1..m -> S] : m \in 1..n} : {ps[k] : k \in 1..Len(ps)} = S}

\* C2: when execute_flow is done, the combined text is combine() of exactly
\* the Prompt files that some step read successfully, and the empty string
\* when there is none.
C2_CombinedIsAllSuccessfulPrompts ==
    pc = "done" =>
        IF SuccessfulPrompts = {}
        THEN results.combined_context = <<>>
        ELSE \E ps \in Arrangements(SuccessfulPrompts, Len(flow)) :
                 results.combined_context = append_and_print_prompt_context(ps)

\* the name the j-th configured step goes by
ExpectedName(j) ==
    IF "step" \in DOMAIN flow[j] THEN flow[j].step
    ELSE <<"s", "t", "e", "p", "_">> \o IntToStr(j)

\* C19: while execute_flow runs the outcome list only grows at its end, one
\* entry per step done; the i-th entry carries the i-th step's name (or
\* 'step_i') and file reference and one of the three statuses; when
\* execute_flow returns the list has one entry per configured step.
C19_OneOutcomePerStep ==
    /\ [](/\ pc \in {"loop", "done"} => Len(results.steps_executed) = step_i
          /\ pc = "done" => Len(results.steps_executed) = Len(flow)
          /\ \A j \in 1..Len(results.steps_executed) :
                 /\ Outcome(j).step = ExpectedName(j)
                 /\ Outcome(j).file = FileRefOf(j)
                 /\ Outcome(j).status \in {"success", "error", "skipped"})
    /\ [][/\ Len(results'.steps_executed) >= Len(results.steps_executed)
          /\ SubSeq(results'.steps_executed, 1, Len(results.steps_executed))
                 = results.steps_executed]_vars

C19_Witness ==
    /\ pc = "done"
    /\ Len(flow) = 2
    /\ "step" \in DOMAIN flow[1]
    /\ "step" \notin DOMAIN flow[2]
    /\ Len(results.steps_executed) = 2
    /\ Outcome(1).status = "skipped"
    /\ Outcome(2).status = "success"
    /\ Outcome(2).step = <<"s", "t", "e", "p", "_", "2">>

\* the records read_file returned to the steps from j on that succeeded
RECURSIVE SuccessRecords(_)
SuccessRecords(j) ==
    IF j > Len(flow) THEN <<>>
    ELSE IF Outcome(j).status = "success"
         THEN <<read_file(FullPathOf(j), EntryOf(j)).value>> \o SuccessRecords(j + 1)
    ELSE SuccessRecords(j + 1)

\* C20: when execute_flow is done, files_processed holds the record of every
\* step whose status is 'success' and of no other step, and the Prompt files
\* handed to append_and_print_prompt_context are in the order of their steps.
C20_MapHoldsEverySuccess ==
    pc = "done" =>
        /\ ToSet(DictValues(results.files_processed)) = ToSet(SuccessRecords(1))
        /\ SelectSeq(DictValues(results.files_processed), IsPromptFile)
               = SelectSeq(SuccessRecords(1), IsPromptFile)

(***************************************************************************)
(* Properties of read_files_in_order and append_and_print_prompt_context   *)
(***************************************************************************)
OrderPath(k) == PathJoin(BasePath, file_paths[k])
OrderRecord(k) == read_file(OrderPath(k), Lookup(OrderFS, OrderPath(k)))

\* the records (readable = TRUE) or the paths (readable = FALSE) of the
\* listed paths from k on whose read succeeds, respectively fails
RECURSIVE OrderSelect(_, _)
OrderSelect(k, readable) ==
    IF k > Len(file_paths) THEN <<>>
    ELSE IF (OrderRecord(k).raised = "none") # readable THEN OrderSelect(k + 1, readable)
    ELSE IF readable THEN <<OrderRecord(k).value>> \o OrderSelect(k + 1, readable)
    ELSE <<OrderPath(k)>> \o OrderSelect(k + 1, readable)

\* C11: read_files_in_order never raises; it returns the records of exactly
\* the paths that could be read, in the order of the input, and warns about
\* every path whose read failed, for whatever reason.
C11_OmitsEveryFailure ==
    pc # "start" =>
        /\ ordered.raised = "none"
        /\ ordered.value = OrderSelect(1, TRUE)
        /\ ordered.warnings = OrderSelect(1, FALSE)

\* the k-th block of the combined text: the header lines, an empty line, the
\* body, an empty line and the separator line
BlockHeader(k) ==
    <<"#", " ", "P", "r", "o", "m", "p", "t", " ">> \o IntToStr(k) \o <<":", " ">>
        \o PathName(ordered.value[k].file_path) \o <<NL>>
        \o <<"#", " ", "P", "a", "t", "h", ":", " ">>
        \o PathStr(ordered.value[k].file_path) \o <<NL>>
        \o (IF HasKey(ordered.value[k].frontmatter, K_description)
            THEN <<"#", " ", "D", "e", "s", "c", "r", "i", "p", "t", "i", "o", "n", ":", " ">>
                     \o ordered.value[k].frontmatter.items[K_description] \o <<NL>>
            ELSE <<>>)
        \o (IF HasKey(ordered.value[k].frontmatter, K_mode)
            THEN <<"#", " ", "M", "o", "d", "e", ":", " ">>
                     \o ordered.value[k].frontmatter.items[K_mode] \o <<NL>>
            ELSE <<>>)
        \o (IF HasKey(ordered.value[k].frontmatter, K_model)
            THEN <<"#", " ", "M", "o", "d", "e", "l", ":", " ">>
                     \o ordered.value[k].frontmatter.items[K_model] \o <<NL>>
            ELSE <<>>)

Block(k) ==
    BlockHeader(k) \o <<NL, NL>> \o ordered.value[k].content \o <<NL, NL>> \o Rule \o <<NL>>

\* the blocks from the k-th on, one line break between two blocks
RECURSIVE Blocks(_)
Blocks(k) ==
    IF k = Len(ordered.value) THEN Block(k) ELSE Block(k) \o <<NL>> \o Blocks(k + 1)

\* C12: append_and_print_prompt_context returns the empty string for no files;
\* for n files it returns n blocks in the order of the input, the k-th made of
\* a header with the ordinal k and the k-th file's name, that file's body and
\* a separator line.
C12_BlocksInInputOrder ==
    pc = "combined" =>
        IF ordered.value = <<>> THEN combined = <<>> ELSE combined = Blocks(1)

C12_Witness ==
    /\ pc = "combined"
    /\ Len(ordered.value) = 2
    /\ PathName(ordered.value[1].file_path) = F_described
    /\ PathName(ordered.value[2].file_path) = F_prompt
    /\ Contains(combined, <<"#", " ", "P", "r", "o", "m", "p", "t", " ", "2", ":", " ">> \o F_prompt)
    /\ Contains(combined, <<"q", NL, "r", NL, NL>> \o Rule)

(***************************************************************************)
(* Properties of main                                                      *)
(***************************************************************************)
Loaded == load_config(config_file)
ConfiguredSteps == Loaded.value.flow.elems
AllStepsAreMaps == \A k \in 1..Len(ConfiguredSteps) : IsStepMap(ConfiguredSteps[k])

\* the configuration file is missing or malformed, malformed step
\* descriptors included
ConfigBroken == args.flow /\ (Loaded.raised # "none" \/ ~AllStepsAreMaps)

\* C13: a run whose configuration file is missing or malformed (malformed
\* step descriptors included) exits with status 1 without having discovered
\* or read any file.
C13_ConfigFailureBeforeFiles ==
    (pc = "exit" /\ ConfigBroken) => (exit_code = 1 /\ touched = <<>>)

\* the lines a dry run is to print: one per configured step, in flow order
Planned ==
    [k \in 1..Len(ConfiguredSteps) |->
        [i |-> k,
         step_name |-> (IF "step" \in DOMAIN ConfiguredSteps[k]
                        THEN ConfiguredSteps[k].step
                        ELSE <<"s", "t", "e", "p", "_">> \o IntToStr(k)),
         file_path |-> (IF "file" \in DOMAIN ConfiguredSteps[k]
                        THEN ConfiguredSteps[k].file ELSE <<"N", "/", "A">>)]]

NothingTouched ==
    /\ touched = <<>>
    /\ buckets = NotYet
    /\ results = NoResults
    /\ PathJoin(BasePath, OutputName) \notin DOMAIN tree

RECURSIVE StepsDone(_, _)
StepsDone(res, i) ==
    IF i > Len(ConfiguredSteps) \/ ~IsStepMap(ConfiguredSteps[i]) THEN res
    ELSE StepsDone(ExecStep(res, ConfiguredSteps[i], i), i + 1)

FlowResults ==
    IF AllStepsAreMaps
    THEN CombinePrompts(StepsDone([NoResults EXCEPT !.flow_name = config.name], 1))
    ELSE StepsDone([NoResults EXCEPT !.flow_name = config.name], 1)

PathsOf(files) == {files[k].file_path : k \in 1..Len(files)}

\* C9: read_all_files never returns one path in two of its three buckets.
C9_BucketsDisjoint ==
    (pc = "readall" /\ buckets.raised = "none") =>
        /\ PathsOf(buckets.value.documents) \cap PathsOf(buckets.value.instructions) = {}
        /\ PathsOf(buckets.value.documents) \cap PathsOf(buckets.value.prompts) = {}
        /\ PathsOf(buckets.value.instructions) \cap PathsOf(buckets.value.prompts) = {}

C9_Witness ==
    /\ pc = "readall"
    /\ buckets.raised = "none"
    /\ BasePath \o <<N_prompt>> \in PathsOf(buckets.value.prompts)
    /\ BasePath \o <<D_docs, N_instruction>> \in PathsOf(buckets.value.instructions)
    /\ BasePath \o <<N_e>> \in PathsOf(buckets.value.documents)

\* the regular files of the tree that at least one of the patterns matches
MatchedFiles ==
    {path \in DOMAIN tree :
        /\ IsFile(tree[path])
        /\ \E k \in 1..Len(patterns) : path \in Glob(tree, BasePath, patterns[k])}

\* C10: find_files_by_pattern returns the union of the matches of all the
\* patterns without the directories, each path once, in ascending order.
C10_UnionUniqueSorted ==
    pc = "found" =>
        /\ ToSet(found) = MatchedFiles
        /\ \A a, b \in 1..Len(found) : a < b => PathLess(found[a], found[b])

C10_Witness ==
    /\ pc = "found"
    /\ Len(patterns) = 2
    /\ Len(found) >= 3
    /\ \E path \in ToSet(found) :
           path \in Glob(tree, BasePath, patterns[1]) \cap Glob(tree, BasePath, patterns[2])
    /\ \E path \in Glob(tree, BasePath, patterns[1]) : ~IsFile(tree[path])

\* the categories recorded on the records of a bucket
TypesOf(files) == {files[k].metadata.file_type : k \in 1..Len(files)}

\* C21: every record read_all_files returns in 'instructions' has category
\* Instruction, every record in 'prompts' has category Prompt and every
\* record in 'documents' has category Document.
C21_BucketMatchesCategory ==
    (pc = "readall" /\ buckets.raised = "none") =>
        /\ TypesOf(buckets.value.instructions) \subseteq {INSTRUCTION}
        /\ TypesOf(buckets.value.prompts) \subseteq {PROMPT}
        /\ TypesOf(buckets.value.documents) \subseteq {DOCUMENT}

====
